---- MODULE Spec2Model ----
(***************************************************************************)
(* A model of strawberry_autograph/main.py: the GraphQL operation          *)
(* templates (GQLExecutableTemplate) and their registry (AutoGraphClient). *)
(*                                                                         *)
(* Text is modelled as a sequence of one-character strings, so that the    *)
(* casing conversions, the joins and the f-strings of the source are       *)
(* computed character by character.                                        *)
(***************************************************************************)
EXTENDS Integers, Sequences, FiniteSets, TLC

VARIABLES
    templates,    \* the GQLExecutableTemplate objects, in creation order
    client_dict,  \* AutoGraphClient.__dict__, an insertion-ordered mapping
    cache,        \* per template: the three cached_property slots
    computed,     \* per template: how often each cached body ran to its end
    last          \* the last operation performed and what it returned

vars == <<templates, client_dict, cache, computed, last>>

(***************************************************************************)
(* Characters and text                                                     *)
(***************************************************************************)
UpperChars ==
    <<"A","B","C","D","E","F","G","H","I","J","K","L","M",
      "N","O","P","Q","R","S","T","U","V","W","X","Y","Z">>

LowerChars ==
    <<"a","b","c","d","e","f","g","h","i","j","k","l","m",
      "n","o","p","q","r","s","t","u","v","w","x","y","z">>

DigitChars == <<"0","1","2","3","4","5","6","7","8","9">>

IsUpper(c) == \E i \in 1..Len(UpperChars) : UpperChars[i] = c

IsLower(c) == \E i \in 1..Len(LowerChars) : LowerChars[i] = c

IsDigit(c) == \E i \in 1..Len(DigitChars) : DigitChars[i] = c

ToLower(c) ==
    IF IsUpper(c)
    THEN LowerChars[CHOOSE i \in 1..Len(UpperChars) : UpperChars[i] = c]
    ELSE c

ToUpper(c) ==
    IF IsLower(c)
    THEN UpperChars[CHOOSE i \in 1..Len(LowerChars) : LowerChars[i] = c]
    ELSE c

\* str.lower()
Lowercase(s) == [i \in 1..Len(s) |-> ToLower(s[i])]

\* str.capitalize(): first character upper-cased, the rest lower-cased
Capitalize(s) == [i \in 1..Len(s) |-> IF i = 1 THEN ToUpper(s[i]) ELSE ToLower(s[i])]

\* sep.join(parts)
RECURSIVE Join(_, _)
Join(parts, sep) ==
    IF parts = <<>> THEN <<>>
    ELSE IF Len(parts) = 1 THEN parts[1]
    ELSE parts[1] \o sep \o Join(Tail(parts), sep)

\* s.split(sep) for a one-character separator, the pieces from index i on
RECURSIVE SplitFrom(_, _, _)
SplitFrom(s, sep, i) ==
    LET seps == {p \in i..Len(s) : s[p] = sep}
    IN  IF seps = {} THEN <<SubSeq(s, i, Len(s))>>
        ELSE LET p == CHOOSE x \in seps : \A y \in seps : x <= y
             IN  <<SubSeq(s, i, p - 1)>> \o SplitFrom(s, sep, p + 1)

Split(s, sep) == SplitFrom(s, sep, 1)

\* whether text s holds the text p at position i
HasAt(s, p, i) == i >= 1 /\ i + Len(p) - 1 <= Len(s) /\ SubSeq(s, i, i + Len(p) - 1) = p

StartsWith(s, p) == HasAt(s, p, 1)

EndsWith(s, p) == HasAt(s, p, Len(s) - Len(p) + 1)

Contains(s, p) == \E i \in 1..(Len(s) + 1) : HasAt(s, p, i)

(***************************************************************************)
(* strawberry.utils.str_converters                                         *)
(***************************************************************************)
\* the last index of the run of lower-case letters that holds index j
RECURSIVE LowerRunEnd(_, _)
LowerRunEnd(s, j) ==
    IF j < Len(s) /\ IsLower(s[j + 1]) THEN LowerRunEnd(s, j + 1) ELSE j

\* re.sub("(.)([A-Z][a-z]+)", r"\1_\2", s), scanning from index i
RECURSIVE SubCapWord(_, _)
SubCapWord(s, i) ==
    IF i > Len(s) THEN <<>>
    ELSE IF i + 2 <= Len(s) /\ IsUpper(s[i + 1]) /\ IsLower(s[i + 2])
    THEN LET j == LowerRunEnd(s, i + 2)
         IN  <<s[i], "_">> \o SubSeq(s, i + 1, j) \o SubCapWord(s, j + 1)
    ELSE <<s[i]>> \o SubCapWord(s, i + 1)

\* re.sub("([a-z0-9])([A-Z])", r"\1_\2", s), scanning from index i
RECURSIVE SubLowerUpper(_, _)
SubLowerUpper(s, i) ==
    IF i > Len(s) THEN <<>>
    ELSE IF i + 1 <= Len(s) /\ (IsLower(s[i]) \/ IsDigit(s[i])) /\ IsUpper(s[i + 1])
    THEN <<s[i], "_", s[i + 1]>> \o SubLowerUpper(s, i + 2)
    ELSE <<s[i]>> \o SubLowerUpper(s, i + 1)

to_snake_case(name) == Lowercase(SubLowerUpper(SubCapWord(name, 1), 1))

\* components[0] + "".join(x.capitalize() if x else "_" for x in components[1:])
RECURSIVE CamelTail(_)
CamelTail(components) ==
    IF components = <<>> THEN <<>>
    ELSE (IF Head(components) = <<>> THEN <<"_">> ELSE Capitalize(Head(components)))
         \o CamelTail(Tail(components))

to_camel_case(snake_str) ==
    LET components == Split(snake_str, "_")
    IN  Head(components) \o CamelTail(Tail(components))

(***************************************************************************)
(* Insertion-ordered mappings (dict): sequences of [key, val] entries      *)
(***************************************************************************)
Keys(d) == [i \in 1..Len(d) |-> d[i].key]

HasKey(d, k) == \E i \in 1..Len(d) : d[i].key = k

Get(d, k) == d[CHOOSE i \in 1..Len(d) : d[i].key = k].val

\* d[k] = v: a known key keeps its position and takes the new value
DictPut(d, k, v) ==
    IF HasKey(d, k)
    THEN [i \in 1..Len(d) |-> IF d[i].key = k THEN [key |-> k, val |-> v] ELSE d[i]]
    ELSE Append(d, [key |-> k, val |-> v])

\* dict(pairs)
RECURSIVE DictPutAll(_, _)
DictPutAll(d, pairs) ==
    IF pairs = <<>> THEN d
    ELSE DictPutAll(DictPut(d, Head(pairs).key, Head(pairs).val), Tail(pairs))

DictFromPairs(pairs) == DictPutAll(<<>>, pairs)

\* chain.from_iterable(seqs)
RECURSIVE Chain(_)
Chain(seqs) == IF seqs = <<>> THEN <<>> ELSE Head(seqs) \o Chain(Tail(seqs))

(***************************************************************************)
(* Results of calls that may raise                                         *)
(***************************************************************************)
Ok(v) == [ok |-> TRUE, val |-> v]

Raise(e) == [ok |-> FALSE, err |-> e]

(***************************************************************************)
(* Runtime argument values (ArbitraryInput | Any)                          *)
(***************************************************************************)
VStr(s) == [k |-> "str", s |-> s]

VInt(n) == [k |-> "int", n |-> n]

VFloat(repr) == [k |-> "float", repr |-> repr]

VBool(b) == [k |-> "bool", b |-> b]

VNone == [k |-> "NoneType"]

VUnset == [k |-> "UNSET"]

VDatetime(iso) == [k |-> "datetime", iso |-> iso]

VEnum(value) == [k |-> "Enum", value |-> value]

VList(items) == [k |-> "list", items |-> items]

VDict(items) == [k |-> "dict", items |-> items]

\* an instance of a dataclass (a strawberry input type), its fields in order
VDataclass(items) == [k |-> "dataclass", items |-> items]

\* an instance of any other class
VObject == [k |-> "object"]

Pair(k, v) == [key |-> k, val |-> v]

(***************************************************************************)
(* serialize_scalar                                                        *)
(***************************************************************************)
RECURSIVE NatText(_)
NatText(n) ==
    IF n < 10 THEN <<DigitChars[n + 1]>>
    ELSE NatText(n \div 10) \o <<DigitChars[(n % 10) + 1]>>

\* json.dumps of an int
IntText(n) == IF n < 0 THEN <<"-">> \o NatText(0 - n) ELSE NatText(n)

JsonEscape(c) ==
    IF c = "\"" THEN <<"\\", "\"">>
    ELSE IF c = "\\" THEN <<"\\", "\\">>
    ELSE IF c = "\n" THEN <<"\\", "n">>
    ELSE IF c = "\t" THEN <<"\\", "t">>
    ELSE <<c>>

\* json.dumps of a str
JsonString(s) ==
    <<"\"">> \o Chain([i \in 1..Len(s) |-> JsonEscape(s[i])]) \o <<"\"">>

serialize_scalar(scalar) ==
    IF scalar.k = "str" THEN Ok(JsonString(scalar.s))
    ELSE IF scalar.k = "int" THEN Ok(IntText(scalar.n))
    ELSE IF scalar.k = "float" THEN Ok(scalar.repr)
    ELSE IF scalar.k = "bool"
    THEN Ok(IF scalar.b THEN <<"t","r","u","e">> ELSE <<"f","a","l","s","e">>)
    ELSE IF scalar.k = "NoneType" THEN Ok(<<"n","u","l","l">>)
    ELSE IF scalar.k = "datetime" THEN Ok(JsonString(scalar.iso))
    ELSE IF scalar.k = "Enum" THEN Ok(scalar.value)
    ELSE IF scalar.k = "UNSET" THEN Ok(<<"n","u","l","l">>)
    ELSE Raise("TypeError")

(***************************************************************************)
(* GQLExecutableTemplate.serialize_input and _try_asdict                   *)
(***************************************************************************)
RECURSIVE serialize_input(_)
serialize_input(recursive_input) ==
    IF recursive_input.k = "dict"
    THEN LET items == recursive_input.items
             strvalues == [i \in 1..Len(items) |-> serialize_input(items[i].val)]
         IN  IF \E i \in 1..Len(items) : ~strvalues[i].ok
             THEN Raise("TypeError")
             ELSE LET serialized_pairset ==
                          Join([i \in 1..Len(items) |->
                                   to_camel_case(items[i].key) \o <<":", " ">>
                                   \o strvalues[i].val],
                               <<",", " ">>)
                  IN  Ok(<<"{", " ">> \o serialized_pairset \o <<" ", "}">>)
    ELSE IF recursive_input.k = "list"
    THEN LET items == recursive_input.items
             strvalues == [i \in 1..Len(items) |-> serialize_input(items[i])]
         IN  IF \E i \in 1..Len(items) : ~strvalues[i].ok
             THEN Raise("TypeError")
             ELSE Ok(<<"[", " ">>
                     \o Join([i \in 1..Len(items) |-> strvalues[i].val], <<",", " ">>)
                     \o <<" ", "]">>)
    ELSE serialize_scalar(recursive_input)

\* dataclasses._asdict_inner: dataclass instances, lists and dicts are walked
RECURSIVE AsdictInner(_)
AsdictInner(obj) ==
    IF obj.k = "dataclass" \/ obj.k = "dict"
    THEN VDict([i \in 1..Len(obj.items) |->
                   Pair(obj.items[i].key, AsdictInner(obj.items[i].val))])
    ELSE IF obj.k = "list"
    THEN VList([i \in 1..Len(obj.items) |-> AsdictInner(obj.items[i])])
    ELSE obj

\* strawberry.asdict raises TypeError unless given a dataclass instance
_try_asdict(maybedataclass) ==
    IF maybedataclass.k = "dataclass" THEN AsdictInner(maybedataclass)
    ELSE maybedataclass

(***************************************************************************)
(* Schema descriptors                                                      *)
(*                                                                         *)
(* graphql-core input types: [kind |-> "NonNull" | "List", of_type |-> t], *)
(* [kind |-> "Scalar"], [kind |-> "InputObject", fields |-> dict].  An     *)
(* argument or input field descriptor is [has_type |-> TRUE, type |-> t],  *)
(* or [has_type |-> FALSE] when it carries no type.                        *)
(*                                                                         *)
(* Python annotations: [kind |-> "class", name, annotations |-> dict],     *)
(* [kind |-> "Union", args |-> types], [kind |-> "list", args |-> types],  *)
(* and NoneType.  Strawberry response types: a class, a                    *)
(* [kind |-> "StrawberryOptional" | "StrawberryList", of_type |-> t] or a  *)
(* [kind |-> "StrawberryUnion", types |-> classes].                        *)
(***************************************************************************)
HasOfType(t) == t.kind \in {"NonNull", "List", "StrawberryOptional", "StrawberryList"}

\* while inner := getattr(t, 'of_type', None): t = inner
RECURSIVE UnwrapOfType(_)
UnwrapOfType(t) == IF HasOfType(t) THEN UnwrapOfType(t.of_type) ELSE t

NoneType == [kind |-> "NoneType"]

(***************************************************************************)
(* parse_input_tree                                                        *)
(***************************************************************************)
\* a descriptor without a type left out of the tree
RECURSIVE parse_input_tree_skip_untyped(_, _)
parse_input_tree_skip_untyped(field_name, field) ==
    IF ~field.has_type
    THEN <<>>
    ELSE LET field_type == UnwrapOfType(field.type)
             fields == IF field_type.kind = "InputObject" THEN field_type.fields ELSE <<>>
             subfields ==
                 DictFromPairs(Chain([i \in 1..Len(fields) |->
                     parse_input_tree_skip_untyped(fields[i].key, fields[i].val)]))
         IN  <<Pair(field_name, subfields)>>

RECURSIVE parse_input_tree(_, _)
parse_input_tree(field_name, field) ==
    IF ~field.has_type
    THEN <<Pair(field_name, <<>>)>>
    ELSE LET field_type == UnwrapOfType(field.type)
             fields == IF field_type.kind = "InputObject" THEN field_type.fields ELSE <<>>
             subfields ==
                 DictFromPairs(Chain([i \in 1..Len(fields) |->
                     parse_input_tree(fields[i].key, fields[i].val)]))
         IN  <<Pair(field_name, subfields)>>

(***************************************************************************)
(* unwrap_strawberry_type                                                  *)
(***************************************************************************)
\* next(typ for typ in get_args(field_type) if typ is not type(None))
FirstNotNone(args) == args[CHOOSE i \in 1..Len(args) :
                              /\ args[i] # NoneType
                              /\ \A j \in 1..(i - 1) : args[j] = NoneType]

\* one pass of the loop body: the type the recursion is given
StripOneWrapper(field_type) ==
    IF field_type.kind = "Union" THEN FirstNotNone(field_type.args)
    ELSE IF field_type.kind = "list" THEN field_type.args[1]
    ELSE field_type

RECURSIVE unwrap_strawberry_type(_)
RECURSIVE UnwrapAnnotations(_, _)
UnwrapAnnotations(tree, type_annotations) ==
    IF type_annotations = <<>> THEN tree
    ELSE LET field_name == Head(type_annotations).key
             field_type == StripOneWrapper(Head(type_annotations).val)
         IN  UnwrapAnnotations(
                 DictPut(tree, to_camel_case(field_name), unwrap_strawberry_type(field_type)),
                 Tail(type_annotations))

\* getattr(type_, '__annotations__', {}) is empty for everything but a class
unwrap_strawberry_type(type_) ==
    UnwrapAnnotations(<<>>, IF type_.kind = "class" THEN type_.annotations ELSE <<>>)

(***************************************************************************)
(* GQLExecutableTemplate                                                   *)
(***************************************************************************)
ROOT_DEPTH == 1

kw_query == <<"q","u","e","r","y">>

kw_mutation == <<"m","u","t","a","t","i","o","n">>

inline_prefix == <<".",".","."," ","o","n"," ">>

\* __init__
NewTemplate(name, request, is_mutation) ==
    [name        |-> name,
     field       |-> request,
     reqtype     |-> IF is_mutation THEN kw_mutation ELSE kw_query,
     method_name |-> to_snake_case(name)]

\* the body of the cached property input_tree
input_tree(self) ==
    DictFromPairs(Chain([i \in 1..Len(self.field.args) |->
        parse_input_tree(self.field.args[i].key, self.field.args[i].val)]))

\* the body of the cached property fragment_tree; only a union has .types
fragment_tree(self) ==
    LET response_type == UnwrapOfType(self.field.response)
    IN  IF response_type.kind # "StrawberryUnion"
        THEN Raise("AttributeError")
        ELSE LET response_models == response_type.types
             IN  Ok(DictFromPairs([i \in 1..Len(response_models) |->
                        Pair(response_models[i].name,
                             unwrap_strawberry_type(response_models[i]))]))

Tabs(depth) == [i \in 1..depth |-> "\t"]

\* the prefix put on every entry, whatever its depth
RECURSIVE serialize_lines_prefix_everywhere(_, _)
serialize_lines_prefix_everywhere(tree, depth) ==
    IF tree = <<>> THEN <<>>
    ELSE LET field_name == Head(tree).key
             nested_fields == Head(tree).val
             indent == Tabs(depth)
             line == indent \o inline_prefix \o field_name
             own == IF nested_fields # <<>>
                    THEN <<line \o <<" ", "{">> >>
                         \o serialize_lines_prefix_everywhere(nested_fields, depth + 1)
                         \o <<indent \o <<"}">> >>
                    ELSE <<line>>
         IN  own \o serialize_lines_prefix_everywhere(Tail(tree), depth)

RECURSIVE _serialize_fragment_tree_lines(_, _)
_serialize_fragment_tree_lines(tree, depth) ==
    IF tree = <<>> THEN <<>>
    ELSE LET field_name == Head(tree).key
             nested_fields == Head(tree).val
             indent == Tabs(depth)
             prefix_for_root == IF depth = ROOT_DEPTH THEN inline_prefix ELSE <<>>
             line == indent \o prefix_for_root \o field_name
             own == IF nested_fields # <<>>
                    THEN <<line \o <<" ", "{">> >>
                         \o _serialize_fragment_tree_lines(nested_fields, depth + 1)
                         \o <<indent \o <<"}">> >>
                    ELSE <<line>>
         IN  own \o _serialize_fragment_tree_lines(Tail(tree), depth)

\* the body of the cached property serialized_fragment_tree, given the tree
serialized_fragment_tree(tree) ==
    Join(_serialize_fragment_tree_lines(tree, ROOT_DEPTH), <<"\n">>)

\* the dict comprehension of generate_query
QueryInputs(inputs) ==
    VDict(DictFromPairs([i \in 1..Len(inputs) |->
        Pair(to_camel_case(inputs[i].key), _try_asdict(inputs[i].val))]))

\* operation_string of generate_query, given the serialized inputs
operation_string(self, inputs_string) ==
    IF inputs_string # <<>>
    THEN self.reqtype \o <<" ">> \o self.name \o <<"(">> \o inputs_string \o <<")">>
    ELSE self.reqtype \o <<" ">> \o self.name

\* the f-string generate_query returns
query_text(self, inputs_string, fragment_text) ==
    operation_string(self, inputs_string) \o <<" ", "{", "\n">> \o fragment_text \o <<"\n", "}">>

\* __str__ with the wire name in place of the method name
signature_wire_name(self, tree) ==
    LET keys == Keys(tree)
        args == Join([i \in 1..Len(keys) |-> to_snake_case(keys[i])], <<",", " ">>)
    IN  self.reqtype \o <<" ">> \o self.name
        \o (IF args # <<>> THEN <<"(">> \o args \o <<")">> ELSE <<>>)

\* __str__, given the input tree
signature(self, tree) ==
    LET keys == Keys(tree)
        args == Join([i \in 1..Len(keys) |-> to_snake_case(keys[i])], <<",", " ">>)
    IN  self.reqtype \o <<" ">> \o self.method_name
        \o (IF args # <<>> THEN <<"(">> \o args \o <<")">> ELSE <<>>)

(***************************************************************************)
(* cached_property: a slot of the instance __dict__, written by the first  *)
(* access whose body returns.  Each access yields the result, the          *)
(* template's slots and its computation counts afterwards.                 *)
(***************************************************************************)
Unset == [set |-> FALSE]

Cached(v) == [set |-> TRUE, val |-> v]

NoSlots == [input_tree |-> Unset, fragment_tree |-> Unset, serialized_fragment_tree |-> Unset]

NoCounts == [input_tree |-> 0, fragment_tree |-> 0, serialized_fragment_tree |-> 0]

Access(res, c, n) == [res |-> res, c |-> c, n |-> n]

\* input_tree as a plain property: the body runs on every access
GetInputTree_uncached(self, c, n) ==
    LET v == input_tree(self)
    IN  Access(Ok(v), [c EXCEPT !.input_tree = Cached(v)],
               [n EXCEPT !.input_tree = @ + 1])

GetInputTree(self, c, n) ==
    IF c.input_tree.set THEN Access(Ok(c.input_tree.val), c, n)
    ELSE LET v == input_tree(self)
         IN  Access(Ok(v), [c EXCEPT !.input_tree = Cached(v)],
                    [n EXCEPT !.input_tree = @ + 1])

GetFragmentTree(self, c, n) ==
    IF c.fragment_tree.set THEN Access(Ok(c.fragment_tree.val), c, n)
    ELSE LET r == fragment_tree(self)
         IN  IF ~r.ok THEN Access(r, c, n)
             ELSE Access(r, [c EXCEPT !.fragment_tree = Cached(r.val)],
                         [n EXCEPT !.fragment_tree = @ + 1])

GetSerializedFragmentTree(self, c, n) ==
    IF c.serialized_fragment_tree.set
    THEN Access(Ok(c.serialized_fragment_tree.val), c, n)
    ELSE LET t == GetFragmentTree(self, c, n)
         IN  IF ~t.res.ok THEN t
             ELSE LET v == serialized_fragment_tree(t.res.val)
                  IN  Access(Ok(v),
                             [t.c EXCEPT !.serialized_fragment_tree = Cached(v)],
                             [t.n EXCEPT !.serialized_fragment_tree = @ + 1])

\* generate_query: the inputs are serialized before the fragment is read
generate_query(self, c, n, inputs) ==
    LET inputs_string == serialize_input(QueryInputs(inputs))
    IN  IF ~inputs_string.ok THEN Access(inputs_string, c, n)
        ELSE LET f == GetSerializedFragmentTree(self, c, n)
             IN  IF ~f.res.ok THEN f
                 ELSE Access(Ok(query_text(self, inputs_string.val, f.res.val)), f.c, f.n)

\* __str__
str_template(self, c, n) ==
    LET t == GetInputTree(self, c, n)
    IN  Access(Ok(signature(self, t.res.val)), t.c, t.n)

(***************************************************************************)
(* AutoGraphClient                                                         *)
(***************************************************************************)
name_schema == <<"s","c","h","e","m","a">>

name_operations == <<"o","p","e","r","a","t","i","o","n","s">>

TemplateRef(i) == [kind |-> "template", idx |-> i]

\* the two list comprehensions of __init__: queries first, then mutations
MakeTemplates(schema) ==
    [i \in 1..Len(schema.query) |->
        NewTemplate(schema.query[i].key, schema.query[i].val, FALSE)]
    \o
    [i \in 1..Len(schema.mutation) |->
        NewTemplate(schema.mutation[i].key, schema.mutation[i].val, TRUE)]

\* self.schema = schema, then setattr(self, template.method_name, template)
RECURSIVE SetTemplates(_, _, _)
SetTemplates(d, ts, i) ==
    IF i > Len(ts) THEN d
    ELSE SetTemplates(DictPut(d, ts[i].method_name, TemplateRef(i)), ts, i + 1)

MakeClientDict(ts) == SetTemplates(<<Pair(name_schema, [kind |-> "Schema"])>>, ts, 1)

\* the filter of operations over self.__dict__
IsOperationName(name) ==
    /\ name \notin {name_schema, name_operations}
    /\ ~StartsWith(name, <<"_">>)

operation_names(d) == SelectSeq(Keys(d), IsOperationName)

Constructed(schema) ==
    /\ templates = MakeTemplates(schema)
    /\ client_dict = MakeClientDict(templates)
    /\ cache = [i \in 1..Len(templates) |-> NoSlots]
    /\ computed = [i \in 1..Len(templates) |-> NoCounts]
    /\ last = [op |-> "init"]

TemplateKeys == {k \in 1..Len(client_dict) : client_dict[k].val.kind = "template"}

\* str(client.<name>)
Signature(k) ==
    LET i == client_dict[k].val.idx
        r == str_template(templates[i], cache[i], computed[i])
    IN  /\ cache' = [cache EXCEPT ![i] = r.c]
        /\ computed' = [computed EXCEPT ![i] = r.n]
        /\ last' = [op |-> "signature", tmpl |-> i, res |-> r.res]
        /\ UNCHANGED <<templates, client_dict>>

\* client.<name>.generate_query(**inputs)
GenerateQuery(k, inputs) ==
    LET i == client_dict[k].val.idx
        r == generate_query(templates[i], cache[i], computed[i], inputs)
    IN  /\ cache' = [cache EXCEPT ![i] = r.c]
        /\ computed' = [computed EXCEPT ![i] = r.n]
        /\ last' = [op |-> "generate_query", tmpl |-> i, inputs |-> inputs, res |-> r.res]
        /\ UNCHANGED <<templates, client_dict>>

\* executor.execute_sync(query): the schema's own execution, whose
\* ExecutionResult is a function of the query text it is handed
execute_sync(query) == [kind |-> "ExecutionResult", query |-> query]

\* client.<name>(**inputs): the query is built, logged and executed
Call(k, inputs) ==
    LET i == client_dict[k].val.idx
        r == generate_query(templates[i], cache[i], computed[i], inputs)
    IN  /\ cache' = [cache EXCEPT ![i] = r.c]
        /\ computed' = [computed EXCEPT ![i] = r.n]
        /\ last' = [op |-> "call", tmpl |-> i, inputs |-> inputs,
                    res |-> IF r.res.ok THEN Ok(execute_sync(r.res.val)) ELSE r.res]
        /\ UNCHANGED <<templates, client_dict>>

\* client.operations: an entry of the instance __dict__ under that name is
\* what the attribute lookup returns; without one the body runs and its
\* list is stored there
Operations ==
    IF HasKey(client_dict, name_operations)
    THEN /\ last' = [op |-> "operations", res |-> Ok(Get(client_dict, name_operations))]
         /\ UNCHANGED <<templates, client_dict, cache, computed>>
    ELSE LET names == operation_names(client_dict)
             idx(j) == Get(client_dict, names[j]).idx
             strs == [j \in 1..Len(names) |->
                         str_template(templates[idx(j)], cache[idx(j)], computed[idx(j)])]
             listed(i) == \E j \in 1..Len(names) : idx(j) = i
             at(i) == CHOOSE j \in 1..Len(names) : idx(j) = i
             value == [kind |-> "list", list |-> [j \in 1..Len(names) |-> strs[j].res.val]]
         IN  /\ cache' = [i \in 1..Len(templates) |->
                             IF listed(i) THEN strs[at(i)].c ELSE cache[i]]
             /\ computed' = [i \in 1..Len(templates) |->
                                IF listed(i) THEN strs[at(i)].n ELSE computed[i]]
             /\ client_dict' = DictPut(client_dict, name_operations, value)
             /\ last' = [op |-> "operations", res |-> Ok(value)]
             /\ UNCHANGED templates

(***************************************************************************)
(* The schemas the model is run on                                         *)
(***************************************************************************)
\* graphql-core argument types
GScalar(name) == [kind |-> "Scalar", name |-> name]

GNonNull(t) == [kind |-> "NonNull", of_type |-> t]

GList(t) == [kind |-> "List", of_type |-> t]

GInputObject(name, fields) == [kind |-> "InputObject", name |-> name, fields |-> fields]

Typed(t) == [has_type |-> TRUE, type |-> t]

Untyped == [has_type |-> FALSE]

GString == GScalar(<<"S","t","r","i","n","g">>)

GInt == GScalar(<<"I","n","t">>)

AddressInput ==
    GInputObject(<<"A","d","d","r","e","s","s","I","n","p","u","t">>, <<Pair(<<"c","i","t","y">>, Typed(GString)), Pair(<<"z","i","p">>, Typed(GNonNull(GInt)))>>)

RegisterInput ==
    GInputObject(<<"R","e","g","i","s","t","e","r","I","n","p","u","t">>,
        <<Pair(<<"a","d","d","r","e","s","s">>, Typed(GNonNull(AddressInput))), Pair(<<"n","i","c","k","n","a","m","e">>, Untyped)>>)

\* Python classes and annotations
Class(name, annotations) == [kind |-> "class", name |-> name, annotations |-> annotations]

Optional(t) == [kind |-> "Union", args |-> <<t, NoneType>>]

ListOf(t) == [kind |-> "list", args |-> <<t>>]

StrClass == Class(<<"s","t","r">>, <<>>)

User == Class(<<"U","s","e","r">>, <<Pair(<<"i","d">>, StrClass), Pair(<<"n","a","m","e">>, StrClass)>>)

Admin == Class(<<"A","d","m","i","n">>, <<Pair(<<"i","d">>, StrClass)>>)

Guest == Class(<<"G","u","e","s","t">>, <<Pair(<<"i","d">>, StrClass), Pair(<<"t","o","k","e","n">>, StrClass)>>)

Team == Class(<<"T","e","a","m">>, <<Pair(<<"t","e","a","m","_","l","e","a","d">>, User), Pair(<<"m","e","m","b","e","r","s">>, ListOf(User))>>)

League == Class(<<"L","e","a","g","u","e">>, <<Pair(<<"t","o","p","_","t","e","a","m">>, Optional(Team)), Pair(<<"t","i","t","l","e">>, StrClass)>>)

\* a type whose fields are all resolver methods: it has no annotations
Marker == Class(<<"M","a","r","k","e","r">>, <<>>)

Holder(t) == Class(<<"H","o","l","d","e","r">>, <<Pair(<<"u","s","e","r","_","n","a","m","e">>, StrClass), Pair(<<"h","e","l","d">>, t)>>)

\* strawberry response types
SUnion(types) == [kind |-> "StrawberryUnion", types |-> types]

SOptional(t) == [kind |-> "StrawberryOptional", of_type |-> t]

SList(t) == [kind |-> "StrawberryList", of_type |-> t]

Field(args, response) == [args |-> args, response |-> response]

MaxWrap == 2

\* the annotations that wrap a class in at most d nullable and list wrappers
\* (typing flattens Optional[Optional[T]] into Optional[T])
RECURSIVE Wrapped(_)
Wrapped(d) ==
    IF d = 0 THEN {User, StrClass}
    ELSE LET inner == Wrapped(d - 1)
         IN  inner \cup {ListOf(t) : t \in inner}
                   \cup {Optional(t) : t \in {u \in inner : u.kind # "Union"}}

n_ping == <<"p","i","n","g">>

n_setName == <<"s","e","t","N","a","m","e">>

n_createUser == <<"c","r","e","a","t","e","U","s","e","r">>

n_getUser == <<"g","e","t","U","s","e","r">>

n_get_user == <<"g","e","t","_","u","s","e","r">>

n_hidden == <<"_","h","i","d","d","e","n">>

n_register == <<"r","e","g","i","s","t","e","r">>

n_getHTTPStatus == <<"g","e","t","H","T","T","P","S","t","a","t","u","s">>

a_newName == <<"n","e","w","N","a","m","e">>

a_userId == <<"u","s","e","r","I","d">>

\* argument definitions (field.args), by the operation that declares them
NoArgs == <<>>

SetNameArgs == <<Pair(a_newName, Typed(GNonNull(GString)))>>

CreateUserArgs == <<Pair(<<"n","a","m","e">>, Typed(GNonNull(GString))), Pair(<<"a","g","e">>, Typed(GInt))>>

RegisterArgs == <<Pair(<<"i","n","p","u","t">>, Typed(GNonNull(RegisterInput))), Pair(<<"t","a","g","s">>, Typed(GList(GNonNull(GString))))>>

GetUserArgs == <<Pair(a_userId, Untyped)>>

AdminOrGuest == SUnion(<<Admin, Guest>>)


UserIdArgs == <<Pair(a_userId, Typed(GNonNull(GString)))>>

\* the sub-sequence of pool at the indices in S, in the pool's order
RECURSIVE Pick(_, _)
Pick(pool, S) ==
    IF S = {} THEN <<>>
    ELSE LET m == CHOOSE x \in S : \A y \in S : x <= y
         IN  <<pool[m]>> \o Pick(pool, S \ {m})

\* the non-empty sub-sequences of pool of at most n entries
SubSeqs(pool, n) ==
    {Pick(pool, S) : S \in {X \in SUBSET (1..Len(pool)) : Cardinality(X) \in 1..n}}

QueryPool ==
    <<Pair(n_ping, Field(NoArgs, AdminOrGuest)),
      Pair(n_getUser, Field(UserIdArgs, SOptional(SUnion(<<User>>)))),
      Pair(n_get_user, Field(NoArgs, User)),
      Pair(name_schema, Field(NoArgs, AdminOrGuest)),
      Pair(name_operations, Field(NoArgs, SList(AdminOrGuest))),
      Pair(n_hidden, Field(NoArgs, AdminOrGuest))>>

MutationPool ==
    <<Pair(n_setName, Field(SetNameArgs, AdminOrGuest)),
      Pair(n_createUser, Field(CreateUserArgs, User)),
      Pair(n_ping, Field(NoArgs, SUnion(<<User>>)))>>

MaxQueries == 1

\* a schema has a Query and a Mutation type, each with at least one field
Schemas ==
    {[query |-> q, mutation |-> <<MutationPool[m]>>] :
        q \in SubSeqs(QueryPool, MaxQueries), m \in 1..Len(MutationPool)}

\* keyword arguments of a call: none, and one that does not serialize
CallInputs == {<<>>, <<Pair(<<"t","a","g","s">>, VList(<<VObject>>))>>}

(***************************************************************************)
(* The registry and its templates over their lifetime                      *)
(***************************************************************************)
Init == \E schema \in Schemas : Constructed(schema)

Next ==
    \/ Operations
    \/ \E k \in TemplateKeys : Signature(k)
    \/ \E k \in TemplateKeys, inputs \in CallInputs : GenerateQuery(k, inputs)
    \/ \E k \in TemplateKeys, inputs \in CallInputs : Call(k, inputs)

Spec == Init /\ [][Next]_vars

(***************************************************************************)
(* One operation of each shape: names, argument definitions, responses     *)
(***************************************************************************)
NameArgs ==
    {<<n_ping, NoArgs>>, <<n_setName, SetNameArgs>>, <<n_createUser, CreateUserArgs>>,
     <<n_register, RegisterArgs>>, <<n_getUser, GetUserArgs>>, <<n_getHTTPStatus, NoArgs>>}

Responses ==
    {User, SList(User), AdminOrGuest, SList(AdminOrGuest), SOptional(SUnion(<<User>>)),
     SUnion(<<League, Admin>>), SUnion(<<Team, Guest, Admin>>),
     SUnion(<<Admin, Marker, Guest>>)}
    \cup {SUnion(<<Holder(t), Guest>>) : t \in Wrapped(MaxWrap)}

TypeOps ==
    {Pair(na[1], Field(na[2], AdminOrGuest)) : na \in NameArgs}
    \cup {Pair(n_setName, Field(SetNameArgs, r)) : r \in Responses}

InitTypes ==
    \E op \in TypeOps, is_mutation \in BOOLEAN :
        Constructed(IF is_mutation
                    THEN [query |-> <<QueryPool[1]>>, mutation |-> <<op>>]
                    ELSE [query |-> <<op>>, mutation |-> <<MutationPool[1]>>])

SpecTypes == InitTypes /\ [][Next]_vars


(***************************************************************************)
(* Properties of the registry and of the templates' caches                 *)
(***************************************************************************)
TemplateIds == 1..Len(templates)

Slots == {"input_tree", "fragment_tree", "serialized_fragment_tree"}

\* what the three cached bodies give when run afresh on the template's field
FreshInputTree(i) == input_tree(templates[i])

FreshFragmentTree(i) == fragment_tree(templates[i])

FreshFragmentText(i) == serialized_fragment_tree(FreshFragmentTree(i).val)

\* whether serializing the keyword arguments succeeds
InputsSerialize(inputs) == serialize_input(QueryInputs(inputs)).ok

\* C1: generate_query() with no inputs, on an operation that takes no
\* arguments, yields '<kind> <wireName> {\n<fragmentText>\n}': nothing, and
\* so no parenthesis, stands between the wire name and the ' {'.
C1_NoArgumentsNoParentheses ==
    (/\ last.op = "generate_query"
     /\ last.inputs = <<>>
     /\ last.res.ok
     /\ templates[last.tmpl].field.args = <<>>)
    => LET self == templates[last.tmpl]
       IN  last.res.val = self.reqtype \o <<" ">> \o self.name \o <<" ", "{", "\n">>
                          \o FreshFragmentText(last.tmpl) \o <<"\n", "}">>

\* C6: operations holds exactly one signature per query and mutation of the
\* schema, queries first and then mutations, each in the schema's order,
\* whatever the operations' names are.
C6_OperationsListsEveryOperation ==
    (last.op = "operations")
    => /\ last.res.val.kind = "list"
       /\ Len(last.res.val.list) = Len(templates)
       /\ \A i \in TemplateIds :
              last.res.val.list[i] = signature(templates[i], FreshInputTree(i))

\* C10: each of the three cached values of a template is computed at most
\* once, on first use and not when the registry is built, and a slot that
\* is written holds what a fresh computation from the schema gives, which
\* is also what every signature and query is built from.
C10_CachesWrittenOnce ==
    /\ \A i \in TemplateIds :
          /\ \A slot \in Slots :
                /\ computed[i][slot] <= 1
                /\ cache[i][slot].set <=> computed[i][slot] = 1
          /\ cache[i].input_tree.set
                => cache[i].input_tree.val = FreshInputTree(i)
          /\ cache[i].fragment_tree.set
                => /\ FreshFragmentTree(i).ok
                   /\ cache[i].fragment_tree.val = FreshFragmentTree(i).val
          /\ cache[i].serialized_fragment_tree.set
                => /\ cache[i].fragment_tree.set
                   /\ cache[i].serialized_fragment_tree.val = FreshFragmentText(i)
    /\ last.op = "init"
          => \A i \in TemplateIds : \A slot \in Slots : ~cache[i][slot].set
    /\ last.op = "signature"
          => /\ cache[last.tmpl].input_tree.set
             /\ last.res = Ok(signature(templates[last.tmpl], FreshInputTree(last.tmpl)))
    /\ last.op \in {"generate_query", "call"}
          => /\ last.res.ok => cache[last.tmpl].serialized_fragment_tree.set
             /\ (InputsSerialize(last.inputs) /\ FreshFragmentTree(last.tmpl).ok)
                   => /\ last.res.ok
                      /\ cache[last.tmpl].serialized_fragment_tree.set
             /\ (last.op = "generate_query" /\ last.res.ok)
                   => last.res.val =
                          query_text(templates[last.tmpl],
                                     serialize_input(QueryInputs(last.inputs)).val,
                                     FreshFragmentText(last.tmpl))

\* a call whose arguments do not serialize, made on a template whose three
\* slots were written by earlier uses
C10_Witness ==
    /\ last.op = "call"
    /\ ~last.res.ok
    /\ \A slot \in Slots : computed[last.tmpl][slot] = 1


(***************************************************************************)
(* Properties of the trees, the fragment text and the signature            *)
(***************************************************************************)
ResponseType(i) == UnwrapOfType(templates[i].field.response)

RECURSIVE LeadingTabsFrom(_, _)
LeadingTabsFrom(line, p) ==
    IF p <= Len(line) /\ line[p] = "\t" THEN 1 + LeadingTabsFrom(line, p + 1) ELSE 0

LeadingTabs(line) == LeadingTabsFrom(line, 1)

\* C3: for a plain composite response type the fragment is built and lists
\* the type's own fields at the root, one per line at one tab, none of them
\* carrying '... on '.
C3_PlainResponseListsOwnFields ==
    (/\ last.op = "generate_query"
     /\ InputsSerialize(last.inputs)
     /\ ResponseType(last.tmpl).kind = "class")
    => LET fields == ResponseType(last.tmpl).annotations
           text == cache[last.tmpl].serialized_fragment_tree.val
           lines == Split(text, "\n")
           roots == {p \in 1..Len(lines) : LeadingTabs(lines[p]) = ROOT_DEPTH}
       IN  /\ last.res.ok
           /\ cache[last.tmpl].serialized_fragment_tree.set
           /\ \A p \in 1..Len(lines) : ~Contains(lines[p], inline_prefix)
           /\ Cardinality({p \in roots : lines[p] # <<"\t", "}">>}) = Len(fields)
           /\ (ResponseType(last.tmpl) = User => text = <<"\t","i","d","\n","\t","n","a","m","e">>)

\* the positions of the lines that open a root entry
RootOpeners(lines) ==
    {p \in 1..Len(lines) : LeadingTabs(lines[p]) = ROOT_DEPTH /\ lines[p] # <<"\t", "}">>}

\* the j-th smallest position of a set of positions
Nth(positions, j) ==
    CHOOSE p \in positions : Cardinality({q \in positions : q < p}) = j - 1

IsFieldLine(line) ==
    LeadingTabs(line) = ROOT_DEPTH + 1 /\ line # <<"\t", "\t", "}">>

UnionBlocks(i) ==
    LET members == ResponseType(i).types
        lines == Split(cache[i].serialized_fragment_tree.val, "\n")
        openers == RootOpeners(lines)
        first(j) == Nth(openers, j)
        final(j) == IF j < Len(members) THEN Nth(openers, j + 1) - 1 ELSE Len(lines)
        fieldlines(j) == SelectSeq(SubSeq(lines, first(j) + 1, final(j)), IsFieldLine)
    IN  /\ Cardinality(openers) = Len(members)
        /\ \A j \in 1..Len(members) :
              LET fields == members[j].annotations
                  opener == <<"\t">> \o inline_prefix \o members[j].name
              IN  /\ IF fields = <<>>
                     THEN lines[first(j)] = opener /\ final(j) = first(j)
                     ELSE /\ lines[first(j)] = opener \o <<" ", "{">>
                          /\ lines[final(j)] = <<"\t", "}">>
                  /\ Len(fieldlines(j)) = Len(fields)
                  /\ \A f \in 1..Len(fields) :
                        LET wire == <<"\t", "\t">> \o to_camel_case(fields[f].key)
                        IN  fieldlines(j)[f] \in {wire, wire \o <<" ", "{">>}
        /\ \A p \in 1..Len(lines) :
              LeadingTabs(lines[p]) > ROOT_DEPTH => ~Contains(lines[p], inline_prefix)
        /\ \A p \in 1..Len(lines) :
              EndsWith(lines[p], <<" ", "{">>)
              => \E q \in (p + 1)..Len(lines) :
                    /\ lines[q] = Tabs(LeadingTabs(lines[p])) \o <<"}">>
                    /\ \A r \in (p + 1)..(q - 1) :
                          LeadingTabs(lines[r]) > LeadingTabs(lines[p])

\* C4: for a response type that is a union of N members the fragment text
\* holds exactly N root blocks, in member order, each opened by
\* '... on <member>' at one tab and holding the member's fields (a member
\* without fields is that one line); no deeper line carries '... on ', and
\* every block is closed by '}' at the indent of the line that opened it.
C4_UnionRendersOneBlockPerMember ==
    \A i \in TemplateIds :
        (ResponseType(i).kind = "StrawberryUnion" /\ cache[i].serialized_fragment_tree.set)
        => UnionBlocks(i)

\* a query was generated for the union of Team, Guest and Admin, whose
\* first member nests blocks two levels deep
C4_Witness ==
    /\ last.op = "generate_query"
    /\ last.res.ok
    /\ ResponseType(last.tmpl) = SUnion(<<Team, Guest, Admin>>)
    /\ Len(Split(cache[last.tmpl].serialized_fragment_tree.val, "\n")) > Len(ResponseType(last.tmpl).types)

\* the argument names an operation declares, in declaration order
DeclaredArgs(i) == Keys(templates[i].field.args)

SignatureOf(i, opname, argnames) ==
    templates[i].reqtype \o <<" ">> \o opname
    \o (IF argnames = <<>> THEN <<>> ELSE <<"(">> \o Join(argnames, <<",", " ">>) \o <<")">>)

\* C5 as stated: the signature is '<kind> <name>', followed by the declared
\* argument names in parentheses when there are any: 'query ping',
\* 'mutation setName(newName)'.
C5_SignatureUsesDeclaredNames ==
    (last.op = "signature")
    => /\ last.res.ok
       /\ last.res.val = SignatureOf(last.tmpl, templates[last.tmpl].name, DeclaredArgs(last.tmpl))

\* C5 as amended: the signature is '<kind> <snake-cased name>', followed by
\* the snake-cased argument names, in declaration order, in parentheses
\* when there are any: 'query ping', 'mutation set_name(new_name)'.
C5_SignatureUsesSnakeCase ==
    (last.op = "signature")
    => LET i == last.tmpl
           declared == DeclaredArgs(i)
       IN  /\ last.res.ok
           /\ last.res.val =
                  SignatureOf(i, to_snake_case(templates[i].name),
                              [a \in 1..Len(declared) |-> to_snake_case(declared[a])])
           /\ (templates[i].name = n_ping /\ declared = <<>> /\ templates[i].reqtype = kw_query)
                  => last.res.val = <<"q","u","e","r","y"," ","p","i","n","g">>
           /\ (templates[i].name = n_setName /\ declared = <<a_newName>>
               /\ templates[i].reqtype = kw_mutation)
                  => last.res.val = <<"m","u","t","a","t","i","o","n"," ","s","e","t","_","n","a","m","e","(","n","e","w","_","n","a","m","e",")">>

C5_Witness ==
    /\ last.op = "signature"
    /\ templates[last.tmpl].name = n_setName
    /\ templates[last.tmpl].reqtype = kw_mutation
    /\ last.res = Ok(<<"m","u","t","a","t","i","o","n"," ","s","e","t","_","n","a","m","e","(","n","e","w","_","n","a","m","e",")">>)

\* whether some descriptor among the fields, at any depth, has no type
RECURSIVE HasUntyped(_)
HasUntyped(fields) ==
    \E j \in 1..Len(fields) :
        \/ ~fields[j].val.has_type
        \/ /\ fields[j].val.has_type
           /\ UnwrapOfType(fields[j].val.type).kind = "InputObject"
           /\ HasUntyped(UnwrapOfType(fields[j].val.type).fields)

\* whether the tree holds every field, and an empty sub-tree under each
\* field that has no type
RECURSIVE LeafAtUntyped(_, _)
LeafAtUntyped(fields, tree) ==
    \A j \in 1..Len(fields) :
        /\ HasKey(tree, fields[j].key)
        /\ IF ~fields[j].val.has_type
           THEN Get(tree, fields[j].key) = <<>>
           ELSE UnwrapOfType(fields[j].val.type).kind = "InputObject"
                => LeafAtUntyped(UnwrapOfType(fields[j].val.type).fields,
                                 Get(tree, fields[j].key))

RECURSIVE StripWrappers(_)
StripWrappers(t) == IF t.kind \in {"Union", "list"} THEN StripWrappers(StripOneWrapper(t)) ELSE t

\* C8: in the response tree, the entry of every field is the expansion of
\* the named type under all of the field's nullable and list wrappers.
C8_WrappedFieldsAreExpanded ==
    \A i \in TemplateIds :
        cache[i].fragment_tree.set
        => \A j \in 1..Len(ResponseType(i).types) :
              LET member == ResponseType(i).types[j]
                  subtree == Get(cache[i].fragment_tree.val, member.name)
              IN  \A f \in 1..Len(member.annotations) :
                      Get(subtree, to_camel_case(member.annotations[f].key))
                          = unwrap_strawberry_type(StripWrappers(member.annotations[f].val))


(***************************************************************************)
(* Queries generated from argument values of every shape                   *)
(***************************************************************************)
\* an instance of a dataclass with the one field x
Point == VDataclass(<<Pair(<<"x">>, VInt(1))>>)

Scalars ==
    {VStr(<<"a">>), VStr(<<"s","a","y"," ","\"","h","i","\"">>), VInt(12), VInt(0 - 3), VFloat(<<"1",".","5">>), VBool(TRUE),
     VBool(FALSE), VNone, VUnset, VEnum(<<"A","C","T","I","V","E">>), VStr(<<"A","C","T","I","V","E">>),
     VDatetime(<<"2","0","2","4","-","0","1","-","0","2","T","0","3",":","0","4",":","0","5">>)}

NestAtoms == {VStr(<<"a">>), Point, VObject}

MaxNest == 2

\* the values that nest lists, mappings and dataclass instances d deep
RECURSIVE Nested(_)
Nested(d) ==
    IF d = 0 THEN NestAtoms
    ELSE LET inner == Nested(d - 1)
         IN  inner
             \cup {VList(<<>>)}
             \cup {VList(<<v>>) : v \in inner}
             \cup {VList(<<v, VStr(<<"b">>)>>) : v \in inner}
             \cup {VDict(<<Pair(<<"h","o","m","e","_","c","i","t","y">>, v)>>) : v \in inner}
             \cup {VDataclass(<<Pair(<<"a","d","d","r","e","s","s">>, v), Pair(<<"z","i","p">>, VInt(1))>>) : v \in inner}

Values == Scalars \cup Nested(MaxNest)

\* keyword arguments: none, one, or two (of which two may share a wire name)
ValueInputs ==
    {<<>>}
    \cup {<<Pair(<<"n","e","w","_","n","a","m","e">>, v)>> : v \in Scalars}
    \cup {<<Pair(<<"t","a","g","s">>, v)>> : v \in Nested(MaxNest)}
    \cup {<<Pair(<<"t","a","g","s">>, v), Pair(<<"n","e","w","_","n","a","m","e">>, w)>> : v \in Nested(1), w \in {VStr(<<"a">>), VEnum(<<"A","C","T","I","V","E">>)}}
    \cup {<<Pair(<<"n","e","w","_","n","a","m","e">>, VStr(<<"a">>)), Pair(<<"n","e","w","N","a","m","e">>, VInt(1))>>}

InitValues == Constructed([query |-> <<QueryPool[1]>>, mutation |-> <<MutationPool[1]>>])

NextValues == \E k \in TemplateKeys, inputs \in ValueInputs : GenerateQuery(k, inputs)

SpecValues == InitValues /\ [][NextValues]_vars

\* C2: with a non-empty argument mapping, the text between the parentheses
\* is the list of 'wireCasedKey: serializedValue' pairs, comma-and-space
\* separated, in call order, with no braces around the list.
C2_ArgumentListWithoutBraces ==
    (last.op = "generate_query" /\ last.inputs # <<>> /\ last.res.ok)
    => LET self == templates[last.tmpl]
           args == QueryInputs(last.inputs).items
           pairs == [a \in 1..Len(args) |->
                        args[a].key \o <<":", " ">> \o serialize_input(args[a].val).val]
       IN  /\ last.res.val =
                  self.reqtype \o <<" ">> \o self.name
                  \o <<"(">> \o Join(pairs, <<",", " ">>) \o <<")">>
                  \o <<" ", "{", "\n">> \o FreshFragmentText(last.tmpl) \o <<"\n", "}">>
           /\ last.inputs = <<Pair(<<"t","a","g","s">>, VList(<<VStr(<<"a">>), VStr(<<"b">>)>>))>>
                  => Contains(last.res.val, <<"(","t","a","g","s",":"," ","["," ","\"","a","\"",","," ","\"","b","\""," ","]",")">>)

\* an argument value with every dataclass instance in it, at any depth and
\* in any container, converted to a mapping
RECURSIVE ConvertedEverywhere(_)
ConvertedEverywhere(v) ==
    IF v.k = "dataclass" \/ v.k = "dict"
    THEN VDict([p \in 1..Len(v.items) |->
                   Pair(v.items[p].key, ConvertedEverywhere(v.items[p].val))])
    ELSE IF v.k = "list"
    THEN VList([p \in 1..Len(v.items) |-> ConvertedEverywhere(v.items[p])])
    ELSE v

\* whether a value holds an instance that no mapping can be made of
RECURSIVE HoldsObject(_)
HoldsObject(v) ==
    IF v.k \in {"dataclass", "dict"}
    THEN \E p \in 1..Len(v.items) : HoldsObject(v.items[p].val)
    ELSE IF v.k = "list"
    THEN \E p \in 1..Len(v.items) : HoldsObject(v.items[p])
    ELSE v.k = "object"

\* C9: a dataclass instance is serialized as the mapping of its fields
\* wherever it occurs in an argument value: as the value itself, as an
\* element of a list, as a value inside a mapping.
C9_DataclassSerializedAsMappingEverywhere ==
    (/\ last.op = "generate_query"
     /\ \A a \in 1..Len(last.inputs) : ~HoldsObject(last.inputs[a].val))
    => LET converted ==
               VDict(DictFromPairs([a \in 1..Len(last.inputs) |->
                   Pair(to_camel_case(last.inputs[a].key),
                        ConvertedEverywhere(last.inputs[a].val))]))
       IN  /\ last.res.ok
           /\ last.res.val = query_text(templates[last.tmpl],
                                        serialize_input(converted).val,
                                        FreshFragmentText(last.tmpl))

====
